---- MODULE Spec2Model ----
(***************************************************************************)
(* Model of the chewy task scheduler (backend/src/scheduling): the task    *)
(* repository, the recurrence expander, the forbidden-zone builder, the    *)
(* CP model handed to the solver, and the POST /api/schedule handler.      *)
(*                                                                         *)
(* Time is a count of ticks since 00:00 of day 0.  A tick is the smallest  *)
(* representable instant of a datetime (a microsecond in Python); a minute *)
(* is TicksPerMinute ticks, an hour MinutesPerHour minutes, a day          *)
(* HoursPerDay hours.  The calendar is scaled down so that a horizon of a  *)
(* few days can be enumerated; the arithmetic is the code's arithmetic.    *)
(***************************************************************************)
EXTENDS Integers, Sequences, FiniteSets, TLC

\* ------------------------------------------------------------------ bounds
TicksPerMinute == 2
MinutesPerHour == 2
HoursPerDay == 4
\* weekday() of day 0 (3 = Thursday): the horizon then meets a weekend
EpochWeekday == 3
MaxDuration == 2

\* backend/config.py, scaled to the model's day: work starts after the first
\* hour and ends one hour before midnight (15:00-23:00 of 24 in the source)
WORK_START_HOUR == 1
WORK_END_HOUR == HoursPerDay - 1

\* Python's None for a datetime, a date or a time (all real values are >= 0;
\* -1 is the wrapper's own mark for "due before the period")
None == 0 - 2

\* ------------------------------------------------------------------ datetime
TicksPerHour == MinutesPerHour * TicksPerMinute
TicksPerDay == HoursPerDay * TicksPerHour

Max(a, b) == IF a >= b THEN a ELSE b
Min(a, b) == IF a <= b THEN a ELSE b

\* datetime.date()
DateOf(t) == t \div TicksPerDay
\* date.weekday(): 0 = Monday .. 6 = Sunday
Weekday(d) == (d + EpochWeekday) % 7
\* datetime.combine(date, time); a time of day is a tick count in 0..TicksPerDay-1
Combine(d, tm) == d * TicksPerDay + tm
\* time(hour, 0)
TimeOfHour(h) == h * TicksPerHour
\* time.min and time.max (23:59:59.999999, the last instant of a day)
TimeMin == 0
TimeMax == TicksPerDay - 1
\* int((a - b).total_seconds() / 60): whole minutes, truncated toward zero
MinutesBetween(a, b) ==
  IF a >= b THEN (a - b) \div TicksPerMinute
  ELSE 0 - ((b - a) \div TicksPerMinute)
\* dt + timedelta(minutes=m)
PlusMinutes(t, m) == t + m * TicksPerMinute

\* ------------------------------------------------------------------ lists
\* list.sort(key=lambda x: x[0]): a stable insertion sort of a list of tuples
\* by their first component
RECURSIVE InsertSorted(_, _)
InsertSorted(x, s) ==
  IF s = <<>> THEN <<x>>
  ELSE IF x[1] < Head(s)[1] THEN <<x>> \o s
  ELSE <<Head(s)>> \o InsertSorted(x, Tail(s))

RECURSIVE SortByFirst(_)
SortByFirst(s) ==
  IF s = <<>> THEN <<>>
  ELSE InsertSorted(s[Len(s)], SortByFirst(SubSeq(s, 1, Len(s) - 1)))

\* ------------------------------------------------------------------ utils.py
\* merge_overlapping_intervals: the loop over the sorted list, carrying the
\* current (start, end) and the merged list built so far
\* a loop that merges only intervals that overlap, not those that touch
RECURSIVE MergeLoopOverlapOnly(_, _, _)
MergeLoopOverlapOnly(rest, current, merged_intervals) ==
  IF rest = <<>> THEN Append(merged_intervals, current)
  ELSE LET next == Head(rest)
       IN  IF next[1] < current[2]
           THEN MergeLoopOverlapOnly(Tail(rest), <<current[1], Max(current[2], next[2])>>,
                                     merged_intervals)
           ELSE MergeLoopOverlapOnly(Tail(rest), next, Append(merged_intervals, current))

RECURSIVE MergeLoop(_, _, _)
MergeLoop(rest, current, merged_intervals) ==
  IF rest = <<>> THEN Append(merged_intervals, current)
  ELSE LET next == Head(rest)
       IN  IF next[1] <= current[2]
           THEN MergeLoop(Tail(rest), <<current[1], Max(current[2], next[2])>>,
                          merged_intervals)
           ELSE MergeLoop(Tail(rest), next, Append(merged_intervals, current))

merge_overlapping_intervals(intervals) ==
  IF intervals = <<>> THEN <<>>
  ELSE LET sorted == SortByFirst(intervals)
       IN  MergeLoop(Tail(sorted), Head(sorted), <<>>)

\* ------------------------------------------------------------------ scheduler.py
\* horizon_end_min
HorizonMinutes(ps, pe) == MinutesBetween(pe, ps)

\* the period check of schedule_tasks_with_or_tools: both raise ValueError
PeriodInvalid(ps, pe) == ps >= pe \/ HorizonMinutes(ps, pe) <= 0

\* one (start_m, end_m) segment, appended when end_m > start_m
Segment(from, to, ps) ==
  LET start_m == MinutesBetween(from, ps)
      end_m == MinutesBetween(to, ps)
  IN  IF end_m > start_m THEN << <<start_m, end_m>> >> ELSE <<>>

\* forbidden segment of one calendar event: clipped to the period
EventSegment(ev, ps, pe) ==
  LET event_s_clipped == Max(ev.start, ps)
      event_e_clipped == Min(ev.end, pe)
  IN  IF event_s_clipped < event_e_clipped
      THEN Segment(event_s_clipped, event_e_clipped, ps)
      ELSE <<>>

RECURSIVE EventSegments(_, _, _)
EventSegments(evs, ps, pe) ==
  IF evs = <<>> THEN <<>>
  ELSE EventSegment(Head(evs), ps, pe) \o EventSegments(Tail(evs), ps, pe)

\* one iteration of the day loop: the weekend day, or the time before work
\* starts and the time after work ends of a weekday
DaySegments(d, ps, pe, work_start_hour, work_end_hour) ==
  LET day_start_abs == Combine(d, TimeMin)
      day_end_abs == Combine(d, TimeMax)
      iter_day_actual_start == Max(day_start_abs, ps)
      iter_day_actual_end == Min(day_end_abs, pe)
  IN  IF iter_day_actual_start >= iter_day_actual_end THEN <<>>
      ELSE IF Weekday(d) >= 5
      THEN Segment(iter_day_actual_start, iter_day_actual_end, ps)
      ELSE LET work_starts_dt_on_day == Combine(d, TimeOfHour(work_start_hour))
               non_work_s1 == iter_day_actual_start
               non_work_e1 == Min(work_starts_dt_on_day, iter_day_actual_end)
               work_ends_dt_on_day == Combine(d, TimeOfHour(work_end_hour))
               non_work_s2 == Max(work_ends_dt_on_day, iter_day_actual_start)
               non_work_e2 == iter_day_actual_end
           IN  (IF non_work_e1 > non_work_s1
                THEN Segment(non_work_s1, non_work_e1, ps) ELSE <<>>)
               \o
               (IF non_work_e2 > non_work_s2
                THEN Segment(non_work_s2, non_work_e2, ps) ELSE <<>>)

\* while current_iter_dt.date() <= period_end_dt.date()
RECURSIVE NonWorkSegments(_, _, _, _, _)
NonWorkSegments(d, ps, pe, work_start_hour, work_end_hour) ==
  IF d > DateOf(pe) THEN <<>>
  ELSE DaySegments(d, ps, pe, work_start_hour, work_end_hour)
       \o NonWorkSegments(d + 1, ps, pe, work_start_hour, work_end_hour)

\* raw_fixed_segments, then merged_forbidden_segments
ForbiddenSegments(evs, ps, pe, work_start_hour, work_end_hour) ==
  merge_overlapping_intervals(
    EventSegments(evs, ps, pe)
    \o NonWorkSegments(DateOf(ps), ps, pe, work_start_hour, work_end_hour))

\* ------------------------------------------------------------------ or_task_wrapper.py
\* a start domain that forgets the duration: NewIntVar(0, horizon)
StartDomainWholeHorizon(duration_min, horizon_end_min) == 0 .. horizon_end_min

\* domain of start_var: NewIntVar(0, horizon - duration), or the empty domain
\* NewIntVar(1, 0) of a task longer than the horizon
StartDomain(duration_min, horizon_end_min) ==
  IF 0 > horizon_end_min - duration_min THEN {}
  ELSE 0 .. (horizon_end_min - duration_min)

\* due_by_min: None without a due date, -1 when due before the period
DueByMin(task, ps) ==
  IF task.due_by = None THEN None
  ELSE IF task.due_by < ps THEN 0 - 1
  ELSE MinutesBetween(task.due_by, ps)

\* ------------------------------------------------------------------ scheduler.py, 5: due dates
\* the two branches that call force_infeasibility
DueForcesInfeasible(task, ps) ==
  LET due_by_min == DueByMin(task, ps)
  IN  due_by_min # None /\ (due_by_min < 0 \/ due_by_min < task.duration)

\* the due date bounding the start instead of the end
DueConstraintOnStart(task, ps, start) ==
  LET due_by_min == DueByMin(task, ps)
  IN  due_by_min # None => start <= due_by_min

\* model.Add(end_var <= due_by_min)
DueConstraint(task, ps, start) ==
  LET due_by_min == DueByMin(task, ps)
  IN  due_by_min # None => start + task.duration <= due_by_min

\* ------------------------------------------------------------------ scheduler.py, 7: time windows
HasWindow(task) == task.time_window_start # None /\ task.time_window_end # None

\* the instance_date test of a task tied to a date
InstanceDateValid(task, ps, pe) ==
  /\ task.instance_date >= DateOf(ps)
  /\ task.instance_date <= DateOf(pe)
  /\ Weekday(task.instance_date) < 5

RECURSIVE WeekdaysFrom(_, _)
WeekdaysFrom(d, last) ==
  IF d > last THEN <<>>
  ELSE (IF Weekday(d) < 5 THEN <<d>> ELSE <<>>) \o WeekdaysFrom(d + 1, last)

\* days_to_check
DaysToCheck(task, ps, pe) ==
  IF task.instance_date # None
  THEN IF InstanceDateValid(task, ps, pe) THEN <<task.instance_date>> ELSE <<>>
  ELSE WeekdaysFrom(DateOf(ps), DateOf(pe))

\* the body of "for day_date in days_to_check": the slot of one day in minutes
\* relative to the period start, or nothing
WindowSlot(task, day_date, ps, pe, work_start_hour, work_end_hour) ==
  LET abs_win_s_dt == Combine(day_date, task.time_window_start)
      abs_win_e_0 == Combine(day_date, task.time_window_end)
      abs_win_e_dt == IF abs_win_e_0 < abs_win_s_dt THEN abs_win_e_0 + TicksPerDay
                      ELSE abs_win_e_0
      win_s_clipped_abs == Max(abs_win_s_dt, ps)
      win_e_clipped_abs == Min(abs_win_e_dt, pe)
      day_work_s_abs == Combine(day_date, TimeOfHour(work_start_hour))
      day_work_e_abs == Combine(day_date, TimeOfHour(work_end_hour))
      win_s_0 == Max(win_s_clipped_abs, day_work_s_abs)
      next_day_date == DateOf(abs_win_e_dt)
      crosses == next_day_date > day_date
      next_day_work_s_abs == Combine(next_day_date, TimeOfHour(work_start_hour))
      next_day_work_e_abs == Combine(next_day_date, TimeOfHour(work_end_hour))
      win_e_final_abs ==
        IF crosses /\ Weekday(next_day_date) < 5
        THEN Min(win_e_clipped_abs, next_day_work_e_abs)
        ELSE Min(win_e_clipped_abs, day_work_e_abs)
      win_s_final_abs ==
        IF crosses /\ Weekday(next_day_date) < 5
        THEN Max(win_s_0, IF DateOf(win_s_0) > day_date
                          THEN next_day_work_s_abs ELSE win_s_0)
        ELSE win_s_0
  IN  IF /\ win_e_final_abs > win_s_final_abs
         /\ win_e_final_abs - win_s_final_abs >= task.duration * TicksPerMinute
      THEN << <<MinutesBetween(win_s_final_abs, ps), MinutesBetween(win_e_final_abs, ps)>> >>
      ELSE <<>>

RECURSIVE WindowSlots(_, _, _, _, _, _)
WindowSlots(task, days, ps, pe, work_start_hour, work_end_hour) ==
  IF days = <<>> THEN <<>>
  ELSE WindowSlot(task, Head(days), ps, pe, work_start_hour, work_end_hour)
       \o WindowSlots(task, Tail(days), ps, pe, work_start_hour, work_end_hour)

\* possible_windows_for_task
PossibleWindows(task, ps, pe, work_start_hour, work_end_hour) ==
  WindowSlots(task, DaysToCheck(task, ps, pe), ps, pe, work_start_hour, work_end_hour)

\* every branch of section 7 that calls force_infeasibility: an invalid
\* instance_date, no weekday in the period, no valid slot
WindowForcesInfeasible(task, ps, pe, work_start_hour, work_end_hour) ==
  /\ HasWindow(task)
  /\ PossibleWindows(task, ps, pe, work_start_hour, work_end_hour) = <<>>

\* sum(bool_vars_for_windows) == 1 with both bounds enforced by the chosen b
WindowConstraint(task, ps, pe, work_start_hour, work_end_hour, start) ==
  HasWindow(task) =>
    LET ws == PossibleWindows(task, ps, pe, work_start_hour, work_end_hour)
    IN  \E i \in 1..Len(ws) :
          start >= ws[i][1] /\ start + task.duration <= ws[i][2]

\* ------------------------------------------------------------------ the CP model
\* The model built by schedule_tasks_with_or_tools, as the record
\*   [T: task id -> Task, order: ids in get_tasks order, deps: set of
\*    <<task_id, dependency_id>>, zones: merged forbidden segments,
\*    H: horizon minutes, ps, pe, wsh, weh]
Range(s) == {s[i] : i \in 1..Len(s)}

\* AddNoOverlap between a task interval and one fixed or task interval
Disjoint(s1, e1, s2, e2) == e1 <= s2 \/ e2 <= s1

\* the constraints on one task alone: variable domain, forbidden zones of the
\* no-overlap, due date, time window
TaskStarts(m, id) ==
  LET task == m.T[id]
  IN  {s \in StartDomain(task.duration, m.H) :
         /\ \A z \in Range(m.zones) : Disjoint(s, s + task.duration, z[1], z[2])
         /\ DueConstraint(task, m.ps, s)
         /\ WindowConstraint(task, m.ps, m.pe, m.wsh, m.weh, s)}

\* the edge read the wrong way round: B waits for A
DependencyConstraintReversed(m, a, sa, b, sb) ==
  <<a, b>> \in m.deps => sb >= sa + m.T[a].duration

\* section 6: model.Add(start_A >= end_B) for an edge with both ends in the batch
DependencyConstraint(m, a, sa, b, sb) ==
  <<a, b>> \in m.deps => sa >= sb + m.T[b].duration

\* a no-overlap that covers the forbidden zones only, not the task intervals
CompatibleTasksMayOverlap(m, p, id, s) ==
  /\ DependencyConstraint(m, id, s, id, s)
  /\ \A o \in DOMAIN p :
       /\ DependencyConstraint(m, id, s, o, p[o])
       /\ DependencyConstraint(m, o, p[o], id, s)

\* a start for id that agrees with the partial assignment p: no overlap with
\* the tasks placed so far, and the dependency edges in both directions
Compatible(m, p, id, s) ==
  /\ DependencyConstraint(m, id, s, id, s)
  /\ \A o \in DOMAIN p :
       /\ Disjoint(s, s + m.T[id].duration, p[o], p[o] + m.T[o].duration)
       /\ DependencyConstraint(m, id, s, o, p[o])
       /\ DependencyConstraint(m, o, p[o], id, s)

RECURSIVE Extend(_, _, _)
Extend(m, rest, partials) ==
  IF rest = <<>> THEN partials
  ELSE LET id == Head(rest)
       IN  Extend(m, Tail(rest),
                  {p[1] @@ (id :> p[2]) :
                     p \in {q \in partials \X TaskStarts(m, id) :
                              Compatible(m, q[1], id, q[2])}})

\* an edge to a task outside the batch treated as unsatisfiable
ForcedInfeasibleOnMissingDependency(m) ==
  \/ \E e \in m.deps : e[1] \in Range(m.order) /\ e[2] \notin Range(m.order)
  \/ \E id \in Range(m.order) :
       \/ DueForcesInfeasible(m.T[id], m.ps)
       \/ WindowForcesInfeasible(m.T[id], m.ps, m.pe, m.wsh, m.weh)

\* force_infeasibility was called while the model was built
ForcedInfeasible(m) ==
  \E id \in Range(m.order) :
    \/ DueForcesInfeasible(m.T[id], m.ps)
    \/ WindowForcesInfeasible(m.T[id], m.ps, m.pe, m.wsh, m.weh)

\* a variable was created with the empty domain NewIntVar(1, 0)
HasEmptyDomain(m) ==
  \E id \in Range(m.order) : StartDomain(m.T[id].duration, m.H) = {}

\* every assignment of start values that satisfies the model
Solutions(m) ==
  IF ForcedInfeasible(m) THEN {}
  ELSE Extend(m, m.order, {<<>>})

\* ------------------------------------------------------------------ repository queries (utils.py)
\* the elements of a set of integers in increasing order (primary-key order)
RECURSIVE Ascending(_)
Ascending(S) ==
  IF S = {} THEN <<>>
  ELSE LET lo == CHOOSE x \in S : \A y \in S : x <= y
       IN  <<lo>> \o Ascending(S \ {lo})

\* the empty table, the empty list
Empty == <<>>

Second(pairs) == [i \in 1..Len(pairs) |-> pairs[i][2]]

\* a fetch without the is_chewy_managed filter
get_calendar_eventsAll(evs, start_date, end_date) ==
  LET hit == {e \in DOMAIN evs :
                /\ evs[e].end >= start_date
                /\ evs[e].start <= end_date}
      rows == Ascending(hit)
      keyed == [i \in 1..Len(rows) |-> <<evs[rows[i]].start, rows[i]>>]
      ids == Second(SortByFirst(keyed))
  IN  [i \in 1..Len(ids) |-> evs[ids[i]]]

\* get_calendar_events: the CalendarEvent rows with end >= start_date,
\* start <= end_date and is_chewy_managed false, ordered by start
get_calendar_events(evs, start_date, end_date) ==
  LET hit == {e \in DOMAIN evs :
                /\ evs[e].end >= start_date
                /\ evs[e].start <= end_date
                /\ evs[e].is_chewy_managed = FALSE}
      rows == Ascending(hit)
      keyed == [i \in 1..Len(rows) |-> <<evs[rows[i]].start, rows[i]>>]
      ids == Second(SortByFirst(keyed))
  IN  [i \in 1..Len(ids) |-> evs[ids[i]]]

\* a fetch that does not filter on status
get_tasksWithCompleted(ts, start_date) ==
  LET hit == {t \in DOMAIN ts : ts[t].due_by # None /\ ts[t].due_by >= start_date}
      rows == Ascending(hit)
      keyed == [i \in 1..Len(rows) |-> <<ts[rows[i]].due_by, rows[i]>>]
  IN  Second(SortByFirst(keyed))

\* get_tasks: ids of the Task rows with status != "completed" and
\* due_by >= start_date (a NULL due_by fails the comparison), ordered by due_by
get_tasks(ts, start_date) ==
  LET hit == {t \in DOMAIN ts :
                /\ ts[t].status # "completed"
                /\ ts[t].due_by # None
                /\ ts[t].due_by >= start_date}
      rows == Ascending(hit)
      keyed == [i \in 1..Len(rows) |-> <<ts[rows[i]].due_by, rows[i]>>]
  IN  Second(SortByFirst(keyed))

\* ------------------------------------------------------------------ models.py
\* the Task row RecurringEvent.create_tasks adds for day_iterator
DerivedTask(rid, rec, day_iterator) ==
  [duration |-> rec.duration,
   due_by |-> Combine(day_iterator, TimeMax),
   time_window_start |-> rec.time_window_start,
   time_window_end |-> rec.time_window_end,
   instance_date |-> day_iterator,
   recurring_event_id |-> rid,
   start |-> None, end |-> None, status |-> "unscheduled"]

\* RecurringEvent.create_tasks: the loop "while day_iterator < end_date.date()";
\* db is the pair <<tasks, next fresh id>>
RECURSIVE create_tasks(_, _, _, _, _)
create_tasks(db, rid, rec, day_iterator, end_day) ==
  IF ~(day_iterator < end_day) THEN db
  ELSE IF Weekday(day_iterator) \in rec.recurrence
  THEN create_tasks(<<db[1] @@ (db[2] :> DerivedTask(rid, rec, day_iterator)), db[2] + 1>>,
                    rid, rec, day_iterator + 1, end_day)
  ELSE create_tasks(db, rid, rec, day_iterator + 1, end_day)

\* a delete without its filter: every Task row goes
reset_tasksDeleteAll(db, rid, rec, start_date, end_date) ==
  create_tasks(<<Empty, db[2]>>, rid, rec, DateOf(start_date), DateOf(end_date))

\* a reset that forgets the delete: the old tasks stay next to the new ones
reset_tasksKeepOld(db, rid, rec, start_date, end_date) ==
  create_tasks(db, rid, rec, DateOf(start_date), DateOf(end_date))

\* RecurringEvent.reset_tasks: delete the event's tasks, then create_tasks
reset_tasks(db, rid, rec, start_date, end_date) ==
  LET kept == {t \in DOMAIN db[1] : db[1][t].recurring_event_id # rid}
  IN  create_tasks(<<[t \in kept |-> db[1][t]], db[2]>>, rid, rec,
                   DateOf(start_date), DateOf(end_date))

\* utils.reset_recurring_events: reset_tasks for every RecurringEvent
RECURSIVE ResetLoop(_, _, _, _, _)
ResetLoop(db, rids, recs, start_date, end_date) ==
  IF rids = <<>> THEN db
  ELSE ResetLoop(reset_tasks(db, Head(rids), recs[Head(rids)], start_date, end_date),
                 Tail(rids), recs, start_date, end_date)

reset_recurring_events(db, recs, start_date, end_date) ==
  ResetLoop(db, Ascending(DOMAIN recs), recs, start_date, end_date)

\* ------------------------------------------------------------------ state
VARIABLES
  tasks,           \* Task table: id -> row
  deps,            \* TaskDependency table: set of <<task_id, dependency_id>>
  events,          \* CalendarEvent table: id -> row
  recurring,       \* RecurringEvent table: id -> row
  nextId,          \* the next fresh Task id (uuid4)
  pc,              \* position of the POST /api/schedule handler
  period,          \* <<start_date, end_date>> of the request
  batch,           \* ids returned by get_tasks for the run, in query order
  solved,          \* solver.Value(start_var) per task of the batch
  result,          \* generate_schedule's list: [is_none, items]
  status_message,  \* generate_schedule's status string
  other,           \* the same handler serving a second request: its pc,
                   \* period, batch, solved, result and status_message
  intervals,       \* the argument of a call of merge_overlapping_intervals
  merged           \* the list that call returned

vars == <<tasks, deps, events, recurring, nextId, pc, period, batch, solved,
          result, status_message, other, intervals, merged>>

NoneResult == [is_none |-> TRUE, items |-> <<>>]

\* a handler that serves no request
IdleRequest ==
  [pc |-> "idle", period |-> <<0, 0>>, batch |-> <<>>, solved |-> <<>>,
   result |-> NoneResult, status_message |-> ""]

\* ------------------------------------------------------------------ scheduler.py, 8 and 9
\* What solver.Solve can answer.  A feasible model is answered with any of its
\* solutions, or with UNKNOWN when the 30 s limit passes first; a model with an
\* empty variable domain is rejected or found infeasible, depending on the
\* OR-Tools build.
SolverOutcomes(m) ==
  IF HasEmptyDomain(m)
  THEN {[status |-> st, value |-> <<>>] : st \in {"MODEL_INVALID", "INFEASIBLE"}}
  ELSE LET sols == Solutions(m)
       IN  {[status |-> "UNKNOWN", value |-> <<>>]}
           \cup (IF sols = {} THEN {[status |-> "INFEASIBLE", value |-> <<>>]}
                 ELSE {[status |-> "FEASIBLE", value |-> v] : v \in sols})

\* an end computed from the period start instead of the scheduled start
ResultEntryEndFromPeriod(m, value, task_id) ==
  LET scheduled_start_dt == PlusMinutes(m.ps, value[task_id])
  IN  <<scheduled_start_dt,
        [task_id |-> task_id, start |-> scheduled_start_dt,
         end |-> PlusMinutes(m.ps, m.T[task_id].duration)]>>

\* scheduled_tasks_result before the sort: one entry per item of or_tasks_map,
\* keyed by its start for the sort
ResultEntry(m, value, task_id) ==
  LET start_val_min == value[task_id]
      scheduled_start_dt == PlusMinutes(m.ps, start_val_min)
      scheduled_end_dt == PlusMinutes(scheduled_start_dt, m.T[task_id].duration)
  IN  <<scheduled_start_dt,
        [task_id |-> task_id, start |-> scheduled_start_dt, end |-> scheduled_end_dt]>>

\* an infeasible model answered with an empty list instead of None
ProcessResultsEmptyList(m, outcome) ==
  IF outcome.status = "FEASIBLE"
  THEN [result |-> [is_none |-> FALSE,
                    items |-> Second(SortByFirst(
                      [i \in 1..Len(m.order) |-> ResultEntry(m, outcome.value, m.order[i])]))],
        status_message |-> "Feasible"]
  ELSE [result |-> [is_none |-> FALSE, items |-> <<>>], status_message |-> "Infeasible"]

\* section 9: the (list, status) pair returned for a solver outcome
ProcessResults(m, outcome) ==
  IF outcome.status = "FEASIBLE"
  THEN [result |-> [is_none |-> FALSE,
                    items |-> Second(SortByFirst(
                      [i \in 1..Len(m.order) |-> ResultEntry(m, outcome.value, m.order[i])]))],
        status_message |-> "Feasible"]
  ELSE IF outcome.status = "INFEASIBLE"
  THEN [result |-> NoneResult, status_message |-> "Infeasible"]
  ELSE [result |-> NoneResult, status_message |-> "Solver status: " \o outcome.status]

\* the model schedule_tasks_with_or_tools builds from its arguments
BuildModel(ts, order, calendar_events, task_dependencies, ps, pe, wsh, weh) ==
  [T |-> ts, order |-> order, deps |-> task_dependencies,
   zones |-> ForbiddenSegments(calendar_events, ps, pe, wsh, weh),
   H |-> HorizonMinutes(ps, pe), ps |-> ps, pe |-> pe, wsh |-> wsh, weh |-> weh]

\* ------------------------------------------------------------------ actions
\* the task_dependencies rows after a bulk delete of tasks: both columns are
\* declared ON DELETE CASCADE, which SQLite applies only on a connection with
\* foreign keys switched on; with them off the rows stay
ForeignKeyOutcomes(task_dependencies, before, after) ==
  LET deleted == DOMAIN before \ DOMAIN after
  IN  {task_dependencies,
       {e \in task_dependencies : e[1] \notin deleted /\ e[2] \notin deleted}}

\* generate_schedule(start_date, end_date) as called by the handler: fetch the
\* events, reset the recurring events (committed), fetch tasks and
\* dependencies, build, solve, process.  A ValueError of the period check
\* leaves the handler in its except branch.
GenerateSchedule(start_date, end_date) ==
  /\ pc = "idle"
  /\ LET calendar_events == get_calendar_events(events, start_date, end_date)
         db == reset_recurring_events(<<tasks, nextId>>, recurring, start_date, end_date)
         order == get_tasks(db[1], start_date)
     IN  \E task_dependencies \in ForeignKeyOutcomes(deps, tasks, db[1]) :
         LET m == BuildModel(db[1], order, calendar_events, task_dependencies,
                             start_date, end_date, WORK_START_HOUR, WORK_END_HOUR)
         IN
         /\ tasks' = db[1]
         /\ deps' = task_dependencies
         /\ nextId' = db[2]
         /\ period' = <<start_date, end_date>>
         /\ batch' = order
         /\ IF PeriodInvalid(start_date, end_date)
            THEN /\ pc' = "failed"
                 /\ solved' = <<>>
                 /\ result' = NoneResult
                 /\ status_message' = "ValueError"
            ELSE \E outcome \in SolverOutcomes(m) :
                   LET r == ProcessResults(m, outcome)
                   IN  /\ pc' = "solved"
                       /\ solved' = outcome.value
                       /\ result' = r.result
                       /\ status_message' = r.status_message
  /\ UNCHANGED <<other, intervals, merged, events, recurring>>

\* one pass of the write-back loop of generate_new_schedule
RECURSIVE WriteLoop(_, _)
WriteLoop(ts, items) ==
  IF items = <<>> THEN ts
  ELSE LET task_data == Head(items)
       IN  WriteLoop([ts EXCEPT ![task_data.task_id] =
                        [@ EXCEPT !.start = task_data.start,
                                  !.end = task_data.end,
                                  !.status = "scheduled"]],
                     Tail(items))

\* a write-back that commits the rows it found before the missing one ends it
RECURSIVE WriteLoopFound(_, _)
WriteLoopFound(ts, items) ==
  IF items = <<>> THEN ts
  ELSE IF Head(items).task_id \notin DOMAIN ts THEN ts
  ELSE WriteLoopFound(WriteLoop(ts, <<Head(items)>>), Tail(items))

WriteBackCommitsFound ==
  /\ pc = "solved"
  /\ pc' = "done"
  /\ IF result.is_none
     THEN tasks' = tasks
     ELSE tasks' = WriteLoopFound(tasks, result.items)
  /\ UNCHANGED <<other, intervals, merged, deps, events, recurring, nextId, period, batch, solved, result,
                 status_message>>

\* generate_new_schedule after generate_schedule returned: 500 for a None
\* list; otherwise the write-back and its commit, or, when Task.query.get finds
\* no row for an entry, the exception that ends the request before the commit
WriteBack ==
  /\ pc = "solved"
  /\ pc' = "done"
  /\ IF result.is_none
     THEN tasks' = tasks
     ELSE IF \A i \in 1..Len(result.items) : result.items[i].task_id \in DOMAIN tasks
     THEN tasks' = WriteLoop(tasks, result.items)
     ELSE tasks' = tasks
  /\ UNCHANGED <<other, intervals, merged, deps, events, recurring, nextId, period, batch, solved, result,
                 status_message>>

\* ------------------------------------------------------------------ initial repositories and requests
\* a Task row as create_task stores it
OneOff(duration, due_by, tws, twe, status) ==
  [duration |-> duration, due_by |-> due_by,
   time_window_start |-> tws, time_window_end |-> twe,
   instance_date |-> None, recurring_event_id |-> None,
   start |-> None, end |-> None, status |-> status]

Durations == 1..MaxDuration

\* due dates: the end of Friday's work, and one minute and one tick after
\* Thursday's work start (not on a whole minute)
DueLate == Combine(1, TimeOfHour(WORK_END_HOUR))
DueTight == Combine(0, TimeOfHour(WORK_START_HOUR)) + TicksPerMinute + 1
\* midnight of day 0: before a period that starts one tick later
DueMidnight == Combine(0, TimeMin)

NoWindow == <<None, None>>
\* a window inside the work hours, one that starts before them, and an
\* overnight window from the last work minute to the first one of the next day
WindowInside == <<TimeOfHour(WORK_START_HOUR) + TicksPerMinute, TimeOfHour(WORK_END_HOUR)>>
WindowEarly == <<TimeOfHour(WORK_START_HOUR) - TicksPerMinute,
                 TimeOfHour(WORK_START_HOUR) + TicksPerMinute>>
WindowOvernight == <<TimeOfHour(WORK_END_HOUR) - TicksPerMinute,
                     TimeOfHour(WORK_START_HOUR) + TicksPerMinute>>

\* three tasks and any set of dependency edges among them: chains, a task with
\* two dependencies, cycles, a self-dependency
DepEdges == {<<2, 1>>, <<3, 2>>, <<3, 1>>, <<1, 3>>, <<1, 1>>}
DependencyRepos ==
  {[tasks |-> <<OneOff(d1, DueLate, None, None, "unscheduled"),
                OneOff(d2, DueLate, None, None, "unscheduled"),
                OneOff(1, DueLate, None, None, "unscheduled")>>,
    deps |-> ds, events |-> Empty, recurring |-> Empty] :
     d1 \in Durations, d2 \in Durations, ds \in SUBSET DepEdges}

\* up to two tasks of any duration, due date and status
DueTasks ==
  {OneOff(d, due, None, None, st) :
     d \in Durations, due \in {None, DueMidnight, DueTight, DueLate},
     st \in {"unscheduled", "completed"}}
DueRepos ==
  {[tasks |-> ts, deps |-> {}, events |-> Empty, recurring |-> Empty] :
     ts \in {Empty} \cup {<<t>> : t \in DueTasks}
            \cup {<<t1, t2>> : t1 \in DueTasks, t2 \in DueTasks}}

\* calendar events: inside Thursday's work hours on whole minutes, ending or
\* starting between two minutes, and a Chewy-managed one
WorkStart0 == Combine(0, TimeOfHour(WORK_START_HOUR))
CalendarEvents ==
  {[start |-> WorkStart0 + s, end |-> WorkStart0 + e, is_chewy_managed |-> mg] :
     s \in {0, TicksPerMinute}, e \in {TicksPerMinute + 1, 2 * TicksPerMinute},
     mg \in BOOLEAN}
  \cup {[start |-> WorkStart0 + 1, end |-> WorkStart0 + TicksPerMinute - 1 + 1,
         is_chewy_managed |-> FALSE]}
EventRepos ==
  {[tasks |-> <<OneOff(d, DueLate, None, None, "unscheduled"),
                OneOff(1, DueLate, None, None, "unscheduled")>>,
    deps |-> {}, events |-> <<ev>>, recurring |-> Empty] :
     d \in Durations, ev \in CalendarEvents}
  \cup
  \* one task that only fits into the first work minute of day 0
  {[tasks |-> <<OneOff(1, DueTight, None, None, "unscheduled")>>,
    deps |-> {}, events |-> <<ev>>, recurring |-> Empty] :
     ev \in CalendarEvents}

\* one or two tasks with time windows
WindowTasks ==
  {OneOff(d, DueLate, w[1], w[2], "unscheduled") :
     d \in Durations, w \in {NoWindow, WindowInside, WindowEarly, WindowOvernight}}
WindowRepos ==
  {[tasks |-> ts, deps |-> {}, events |-> Empty, recurring |-> Empty] :
     ts \in {<<t>> : t \in WindowTasks}
            \cup {<<t1, t2>> : t1 \in WindowTasks, t2 \in WindowTasks}}

\* a recurring event, with or without a one-off task (open or completed) next
\* to it
RecurringEvents ==
  {[duration |-> d, time_window_start |-> w[1], time_window_end |-> w[2],
    recurrence |-> rc] :
     d \in Durations, w \in {NoWindow, WindowInside, WindowOvernight},
     rc \in {{3}, {3, 4}, {4, 5}}}
\* the derived tasks may exist already: POST /api/recurring-events expands the
\* event when it is created, here over days 0 and 1
StaleEndDays == {0, 2}
RecurringRepos ==
  {[tasks |-> create_tasks(<<ts, Len(ts) + 1>>, 1, rec, 0, stale_end)[1],
    deps |-> {}, events |-> Empty, recurring |-> <<rec>>] :
     ts \in {Empty} \cup {<<OneOff(1, DueLate, None, None, st)>> :
                              st \in {"unscheduled", "completed"}},
     rec \in RecurringEvents, stale_end \in StaleEndDays}

\* two tasks, the second completed, due at midnight of day 0 (before the later
\* period starts) or open, with edges between them and an edge to a task that
\* does not exist
OutOfBatchEdges == {<<1, 2>>, <<2, 1>>, <<1, 3>>}
OutOfBatchRepos ==
  {[tasks |-> <<OneOff(d, DueLate, None, None, "unscheduled"),
                OneOff(1, second[1], None, None, second[2])>>,
    deps |-> ds, events |-> Empty, recurring |-> Empty] :
     d \in Durations,
     second \in {<<DueLate, "completed">>, <<DueMidnight, "unscheduled">>,
                 <<DueLate, "unscheduled">>},
     ds \in SUBSET OutOfBatchEdges}

Repositories ==
  DependencyRepos \cup DueRepos \cup EventRepos \cup WindowRepos \cup RecurringRepos
  \cup OutOfBatchRepos

\* requests: a period that starts at midnight of day 0, one tick later, or one
\* tick after Thursday's work start, and ends at midnight one, two or three days
\* after day 0, one tick after the first midnight, not after its start, or one
\* minute after the latest start (a horizon shorter than the longest task)
PeriodStarts == {Combine(0, TimeMin), Combine(0, TimeMin) + 1, WorkStart0 + 1}
PeriodEnds == {Combine(0, TimeMin), Combine(1, TimeMin), Combine(1, TimeMin) + 1,
               Combine(2, TimeMin), Combine(3, TimeMin),
               WorkStart0 + 1 + TicksPerMinute}

Init ==
  \E repo \in Repositories :
    /\ tasks = repo.tasks
    /\ deps = repo.deps
    /\ events = repo.events
    /\ recurring = repo.recurring
    /\ nextId = Len(repo.tasks) + 1
    /\ pc = "idle"
    /\ period = <<0, 0>>
    /\ batch = <<>>
    /\ solved = <<>>
    /\ result = NoneResult
    /\ status_message = ""
    /\ other = IdleRequest
    /\ intervals = <<>>
    /\ merged = <<>>

Next ==
  \/ \E start_date \in PeriodStarts, end_date \in PeriodEnds :
       GenerateSchedule(start_date, end_date)
  \/ WriteBack

Spec == Init /\ [][Next]_vars

\* ------------------------------------------------------------------ the task and schedule API (routes.py, recurring_routes.py)
\* a key that the JSON body of a request does not hold
Absent == 0 - 3
AbsentStatus == ""

\* the value a PUT leaves in a column: the body's value when the key is there
Updated(old, new, absent) == IF new = absent THEN old ELSE new

\* POST /api/tasks: Task(**data), stored under a fresh id; status defaults to
\* "unscheduled"; then one task_dependencies row per listed id, which a
\* connection with foreign keys on refuses when an id names no task
CreateTask(data) ==
  /\ tasks' = tasks @@ (nextId :>
       [duration |-> data.duration, due_by |-> data.due_by,
        time_window_start |-> None, time_window_end |-> None,
        instance_date |-> None, recurring_event_id |-> None,
        start |-> Updated(None, data.start, Absent),
        end |-> Updated(None, data.end, Absent),
        status |-> Updated("unscheduled", data.status, AbsentStatus)])
  /\ nextId' = nextId + 1
  /\ deps' \in {deps \cup {<<nextId, dep_id>> : dep_id \in data.dependencies}}
               \cup (IF data.dependencies \subseteq DOMAIN tasks \cup {nextId}
                     THEN {} ELSE {deps})
  /\ UNCHANGED <<other, intervals, merged, events, recurring, pc, period, batch, solved, result,
                 status_message>>

\* PUT /api/tasks/<task_id>: every key of the body is assigned to its column
UpdateTask(task_id, data) ==
  /\ task_id \in DOMAIN tasks
  /\ tasks' = [tasks EXCEPT ![task_id] =
       [@ EXCEPT !.duration = Updated(@, data.duration, Absent),
                 !.start = Updated(@, data.start, Absent),
                 !.end = Updated(@, data.end, Absent),
                 !.status = Updated(@, data.status, AbsentStatus)]]
  /\ UNCHANGED <<other, intervals, merged, deps, events, recurring, nextId, pc, period, batch, solved,
                 result, status_message>>

\* DELETE /api/tasks/<task_id>: the task and the dependency rows on both sides
DeleteTask(task_id) ==
  /\ task_id \in DOMAIN tasks
  /\ tasks' = [t \in DOMAIN tasks \ {task_id} |-> tasks[t]]
  /\ deps' = {e \in deps : e[1] # task_id /\ e[2] # task_id}
  /\ UNCHANGED <<other, intervals, merged, events, recurring, nextId, pc, period, batch, solved, result,
                 status_message>>

\* POST /api/tasks/<task_id>/complete: Task.complete()
CompleteTask(task_id) ==
  /\ task_id \in DOMAIN tasks
  /\ tasks' = [tasks EXCEPT ![task_id].status = "completed"]
  /\ UNCHANGED <<other, intervals, merged, deps, events, recurring, nextId, pc, period, batch, solved,
                 result, status_message>>

\* the loop of clear_all_scheduled_tasks over Task.query.all()
ClearLoop(ts) ==
  [t \in DOMAIN ts |->
     [ts[t] EXCEPT !.status = "unscheduled", !.start = None, !.end = None]]

\* DELETE /api/schedule/clear
ClearAllScheduledTasks ==
  /\ tasks' = ClearLoop(tasks)
  /\ UNCHANGED <<other, intervals, merged, deps, events, recurring, nextId, pc, period, batch, solved,
                 result, status_message>>

\* POST /api/recurring-events/<id>/reset-tasks
ResetRecurringEventTasks(rid, start_date, end_date) ==
  /\ rid \in DOMAIN recurring
  /\ LET db == reset_tasks(<<tasks, nextId>>, rid, recurring[rid], start_date, end_date)
     IN  /\ tasks' = db[1]
         /\ nextId' = db[2]
         /\ deps' \in ForeignKeyOutcomes(deps, tasks, db[1])
  /\ UNCHANGED <<other, intervals, merged, events, recurring, pc, period, batch, solved, result,
                 status_message>>

\* the handler of POST /api/schedule has answered; its locals are gone and the
\* next request may come
Return ==
  /\ pc \in {"done", "failed"}
  /\ pc' = "idle"
  /\ period' = <<0, 0>>
  /\ batch' = <<>>
  /\ solved' = <<>>
  /\ result' = NoneResult
  /\ status_message' = ""
  /\ UNCHANGED <<other, intervals, merged, tasks, deps, events, recurring, nextId>>

\* POST /api/tasks is served while the ids up to MaxTaskId last; a reset or a
\* run may still draw ids after that, so that a created task meets a derived
\* one
MaxTaskId == 1
MaxResetId == MaxTaskId + 1

\* the scheduling requests of this specification cover the last two minutes
\* of Thursday's work hours and the night that follows
ApiPeriod == <<Combine(0, TimeOfHour(WORK_END_HOUR)) - 2 * TicksPerMinute, Combine(1, TimeMin)>>

\* the bodies of the requests: a start at the start of that period, an end one
\* minute later
ApiStart == ApiPeriod[1]
ApiEnd == ApiPeriod[1] + TicksPerMinute
CreatePayloads ==
  {[duration |-> d, due_by |-> DueLate, start |-> s, end |-> Absent,
    status |-> AbsentStatus, dependencies |-> {}] :
     d \in Durations, s \in {Absent, ApiStart}}
NoKey == [duration |-> Absent, start |-> Absent, end |-> Absent, status |-> AbsentStatus]
UpdatePayloads ==
  {[NoKey EXCEPT !.duration = d] : d \in Durations}
  \cup {[NoKey EXCEPT !.start = v] : v \in {None, ApiStart}}
  \cup {[NoKey EXCEPT !.end = v] : v \in {None, ApiEnd}}
  \cup {[NoKey EXCEPT !.status = v] : v \in {"unscheduled", "scheduled", "completed"}}

ApiRepositories ==
  {[tasks |-> ts, recurring |-> rs] :
     ts \in {Empty} \cup {<<OneOff(1, DueLate, None, None, st)>> :
                              st \in {"unscheduled", "completed"}},
     rs \in {Empty, <<[duration |-> 1, time_window_start |-> None,
                       time_window_end |-> None, recurrence |-> {3}]>>}}

ApiInit ==
  \E repo \in ApiRepositories :
    /\ tasks = repo.tasks
    /\ deps = {}
    /\ events = Empty
    /\ recurring = repo.recurring
    /\ nextId = Len(repo.tasks) + 1
    /\ pc = "idle"
    /\ period = <<0, 0>>
    /\ batch = <<>>
    /\ solved = <<>>
    /\ result = NoneResult
    /\ status_message = ""
    /\ other = IdleRequest
    /\ intervals = <<>>
    /\ merged = <<>>

ApiNext ==
  \/ ClearAllScheduledTasks
  \/ nextId <= MaxTaskId /\ \E data \in CreatePayloads : CreateTask(data)
  \/ \E task_id \in DOMAIN tasks, data \in UpdatePayloads : UpdateTask(task_id, data)
  \/ \E task_id \in DOMAIN tasks : DeleteTask(task_id)
  \/ \E task_id \in DOMAIN tasks : CompleteTask(task_id)
  \/ nextId <= MaxResetId /\ \E rid \in DOMAIN recurring :
       ResetRecurringEventTasks(rid, ApiPeriod[1], ApiPeriod[2])
  \/ nextId <= MaxResetId /\ GenerateSchedule(ApiPeriod[1], ApiPeriod[2])
  \/ WriteBack
  \/ Return

ApiSpec == ApiInit /\ [][ApiNext]_vars

\* ------------------------------------------------------------------ tasks with dependencies
\* the body of a POST /api/tasks that lists tasks of the repository as the
\* new task's dependencies
DependencyPayloads ==
  {[duration |-> d, due_by |-> DueLate, start |-> Absent, end |-> Absent,
    status |-> AbsentStatus, dependencies |-> ids] :
     d \in Durations, ids \in SUBSET DOMAIN tasks}

\* tasks are created with dependencies on existing tasks, tasks are deleted,
\* and the tasks of a recurring event are reset
EdgeNext ==
  \/ nextId <= MaxResetId + 1 /\ \E data \in DependencyPayloads : CreateTask(data)
  \/ \E task_id \in DOMAIN tasks : DeleteTask(task_id)
  \/ nextId <= MaxResetId + 2 /\ \E rid \in DOMAIN recurring :
       ResetRecurringEventTasks(rid, ApiPeriod[1], ApiPeriod[2])

EdgeSpec == ApiInit /\ [][EdgeNext]_vars

\* ------------------------------------------------------------------ a second scheduling request
\* generate_schedule as called by the handler of the second request: the same
\* steps on the same repository, with the handler's own locals
OtherGenerateSchedule(start_date, end_date) ==
  /\ other.pc = "idle"
  /\ LET calendar_events == get_calendar_events(events, start_date, end_date)
         db == reset_recurring_events(<<tasks, nextId>>, recurring, start_date, end_date)
         order == get_tasks(db[1], start_date)
     IN  \E task_dependencies \in ForeignKeyOutcomes(deps, tasks, db[1]) :
         LET m == BuildModel(db[1], order, calendar_events, task_dependencies,
                             start_date, end_date, WORK_START_HOUR, WORK_END_HOUR)
         IN
         /\ tasks' = db[1]
         /\ deps' = task_dependencies
         /\ nextId' = db[2]
         /\ IF PeriodInvalid(start_date, end_date)
            THEN other' = [pc |-> "failed", period |-> <<start_date, end_date>>,
                           batch |-> order, solved |-> <<>>, result |-> NoneResult,
                           status_message |-> "ValueError"]
            ELSE \E outcome \in SolverOutcomes(m) :
                   LET r == ProcessResults(m, outcome)
                   IN  other' = [pc |-> "solved", period |-> <<start_date, end_date>>,
                                 batch |-> order, solved |-> outcome.value,
                                 result |-> r.result,
                                 status_message |-> r.status_message]
  /\ UNCHANGED <<events, recurring, pc, period, batch, solved, result,
                 status_message, intervals, merged>>

\* the write-back of the second request
OtherWriteBack ==
  /\ other.pc = "solved"
  /\ other' = [other EXCEPT !.pc = "done"]
  /\ IF other.result.is_none
     THEN tasks' = tasks
     ELSE IF \A i \in 1..Len(other.result.items) :
               other.result.items[i].task_id \in DOMAIN tasks
     THEN tasks' = WriteLoop(tasks, other.result.items)
     ELSE tasks' = tasks
  /\ UNCHANGED <<deps, events, recurring, nextId, pc, period, batch, solved, result,
                 status_message, intervals, merged>>

\* the repositories of the two requests: nothing or one task, nothing or one
\* recurring event on Thursdays, nothing or one calendar event that ends
\* between two minutes
RequestRepositories ==
  {[tasks |-> ts, recurring |-> rs, events |-> evs] :
     ts \in {Empty, <<OneOff(1, DueLate, None, None, "unscheduled")>>},
     rs \in {Empty, <<[duration |-> 1, time_window_start |-> None,
                       time_window_end |-> None, recurrence |-> {3}]>>},
     evs \in {Empty, <<[start |-> WorkStart0, end |-> WorkStart0 + TicksPerMinute + 1,
                        is_chewy_managed |-> FALSE]>>}}

\* a request asks for Thursday, or for the end of Thursday's work hours
RequestPeriods ==
  {<<Combine(0, TimeMin), Combine(1, TimeMin)>>, ApiPeriod}

RequestInit ==
  \E repo \in RequestRepositories :
    /\ tasks = repo.tasks
    /\ deps = {}
    /\ events = repo.events
    /\ recurring = repo.recurring
    /\ nextId = Len(repo.tasks) + 1
    /\ pc = "idle"
    /\ period = <<0, 0>>
    /\ batch = <<>>
    /\ solved = <<>>
    /\ result = NoneResult
    /\ status_message = ""
    /\ other = IdleRequest
    /\ intervals = <<>>
    /\ merged = <<>>

\* two calls one after the other: the second begins when the first has
\* returned, with the same period
SuccessiveNext ==
  \/ \E p \in RequestPeriods : GenerateSchedule(p[1], p[2])
  \/ WriteBack
  \/ pc \in {"solved", "done"} /\ OtherGenerateSchedule(period[1], period[2])
  \/ OtherWriteBack

SuccessiveSpec == RequestInit /\ [][SuccessiveNext]_vars

\* two requests served at the same time: their steps interleave in any order
ConcurrentNext ==
  \/ \E p \in RequestPeriods : GenerateSchedule(p[1], p[2])
  \/ WriteBack
  \/ \E p \in RequestPeriods : OtherGenerateSchedule(p[1], p[2])
  \/ OtherWriteBack

ConcurrentSpec == RequestInit /\ [][ConcurrentNext]_vars

\* ------------------------------------------------------------------ a call of merge_overlapping_intervals
\* the lists the function is called with: up to MaxIntervals intervals (s, e)
\* with 0 <= s < e <= MaxPoint, in any order
MaxPoint == 4
MaxIntervals == 3
IntervalValues == {x \in (0..MaxPoint) \X (0..MaxPoint) : x[1] < x[2]}
IntervalLists == UNION {[1..n -> IntervalValues] : n \in 0..MaxIntervals}

MergeInit ==
  /\ intervals \in IntervalLists
  /\ merged = <<>>
  /\ pc = "idle"
  /\ tasks = Empty /\ deps = {} /\ events = Empty /\ recurring = Empty
  /\ nextId = 1
  /\ period = <<0, 0>> /\ batch = <<>> /\ solved = <<>>
  /\ result = NoneResult /\ status_message = ""
  /\ other = IdleRequest

\* the call: the argument is sorted in place, the merged list is returned
MergeCall ==
  /\ pc = "idle"
  /\ pc' = "merged"
  /\ intervals' = SortByFirst(intervals)
  /\ merged' = merge_overlapping_intervals(intervals)
  /\ UNCHANGED <<tasks, deps, events, recurring, nextId, period, batch, solved,
                 result, status_message, other>>

MergeNext == MergeCall

MergeSpec == MergeInit /\ [][MergeNext]_vars

\* ------------------------------------------------------------------ properties
\* generate_schedule has returned (the handler may have written back since)
Returned == pc \in {"solved", "done"}
Feasible == Returned /\ status_message = "Feasible"
Items == Range(result.items)
PeriodStart == period[1]
PeriodEnd == period[2]

\* C1: generate_schedule never returns a partial assignment: with status
\* "Feasible" the list holds exactly one entry for every task get_tasks returns
\* for the run, and in every other outcome the list is None.
C1_NoPartialAssignment ==
  pc # "idle" =>
    IF status_message = "Feasible"
    THEN /\ ~result.is_none
         /\ Len(result.items) = Len(get_tasks(tasks, PeriodStart))
         /\ \A id \in Range(get_tasks(tasks, PeriodStart)) :
              Cardinality({i \in 1..Len(result.items) : result.items[i].task_id = id}) = 1
    ELSE result.is_none

\* a feasible run over two derived tasks, next to a one-off task that is not in
\* the batch
C1_Witness ==
  /\ pc = "solved" /\ status_message = "Feasible"
  /\ Len(result.items) = 2
  /\ Cardinality(DOMAIN tasks) = 3

\* C2: in a feasible schedule the half-open intervals of two distinct assigned
\* tasks do not intersect.
C2_TasksDoNotOverlap ==
  Feasible =>
    \A a \in Items, b \in Items :
      a.task_id # b.task_id => ~(a.start < b.end /\ b.start < a.end)

\* two tasks placed back to back
C2_Witness ==
  /\ Feasible
  /\ \E a \in Items, b \in Items : a.task_id # b.task_id /\ a.end = b.start

\* C3: in a feasible schedule no assigned task overlaps a calendar event that
\* is not Chewy-managed, whatever the event's start and end instants.
C3_AvoidsCalendarEvents ==
  Feasible =>
    \A t \in Items, e \in DOMAIN events :
      events[e].is_chewy_managed = FALSE =>
        ~(t.start < events[e].end /\ t.end > events[e].start)

\* the work hours of the weekday on which an interval starts contain it
InWorkEnvelope(s, e) ==
  LET d == DateOf(s)
  IN  /\ Weekday(d) < 5
      /\ Combine(d, TimeOfHour(WORK_START_HOUR)) <= s
      /\ e <= Combine(d, TimeOfHour(WORK_END_HOUR))

\* C4: in a feasible schedule every assigned task, whatever its duration, lies
\* inside the work hours of a single weekday.
C4_WorkEnvelope ==
  Feasible => \A t \in Items : InWorkEnvelope(t.start, t.end)

\* C5: in a feasible schedule every assigned task that has a due_by ends no
\* later than it.
C5_DeadlineHonored ==
  Feasible =>
    \A t \in Items :
      tasks[t.task_id].due_by # None => t.end <= tasks[t.task_id].due_by

\* a task that ends within the last minute before a due date that is not on a
\* whole minute of the period
C5_Witness ==
  /\ Feasible
  /\ \E t \in Items :
       /\ tasks[t.task_id].due_by = DueTight
       /\ t.end < DueTight
       /\ DueTight < t.end + TicksPerMinute

\* C6: in a feasible schedule, for every dependency edge (A depends on B) with
\* both tasks in the batch, A starts no earlier than B ends.
C6_DependencyOrder ==
  Feasible =>
    \A a \in Items, b \in Items :
      <<a.task_id, b.task_id>> \in deps => a.start >= b.end

\* a chain 3 -> 2 -> 1 in which task 3 also depends on task 1 directly
C6_Witness ==
  /\ Feasible
  /\ {<<2, 1>>, <<3, 2>>, <<3, 1>>} \subseteq deps
  /\ Cardinality(Items) = 3

\* the days on which the window of a task may be placed
CandidateDays(task) ==
  IF task.instance_date # None THEN {task.instance_date}
  ELSE {d \in DateOf(PeriodStart)..DateOf(PeriodEnd) : Weekday(d) < 5}

\* the end of the window that starts on day d: on d + 1 for an overnight window
WindowEndOn(task, d) ==
  IF task.time_window_end < task.time_window_start
  THEN Combine(d + 1, task.time_window_end)
  ELSE Combine(d, task.time_window_end)

\* C7: in a feasible schedule every assigned task with a time window lies, for
\* one of its candidate days, inside the window of that day intersected with
\* the horizon and the work envelope.
C7_WindowHonored ==
  Feasible =>
    \A t \in Items :
      LET task == tasks[t.task_id]
      IN  HasWindow(task) =>
            \E d \in CandidateDays(task) :
              /\ Combine(d, task.time_window_start) <= t.start
              /\ t.end <= WindowEndOn(task, d)
              /\ PeriodStart <= t.start /\ t.end <= PeriodEnd
              /\ InWorkEnvelope(t.start, t.end)

\* C8: in a feasible schedule every assigned task lies inside the planning
\* horizon.
C8_WithinHorizon ==
  Feasible => \A t \in Items : PeriodStart <= t.start /\ t.end <= PeriodEnd

\* a task that ends exactly at the end of the period
C8_Witness ==
  Feasible /\ \E t \in Items : t.end = PeriodEnd

\* C9: every emitted assignment lasts exactly the task's duration in minutes
\* and starts at the period start plus the solver's start value in minutes.
C9_DurationExact ==
  Feasible =>
    \A t \in Items :
      /\ t.end - t.start = tasks[t.task_id].duration * TicksPerMinute
      /\ t.start = PeriodStart + solved[t.task_id] * TicksPerMinute

\* a two-minute task placed after the start of a period that begins between
\* two minutes
C9_Witness ==
  /\ Feasible
  /\ PeriodStart % TicksPerMinute # 0
  /\ \E t \in Items : tasks[t.task_id].duration = 2 /\ solved[t.task_id] > 0

\* id, start, end and status of the rows of a Task table
TaskState(ts) == [t \in DOMAIN ts |-> <<ts[t].start, ts[t].end, ts[t].status>>]

\* the rows of the one-off tasks (no recurring event)
OneOffRows(ts) ==
  [t \in {x \in DOMAIN ts : ts[x].recurring_event_id = None} |-> ts[t]]

\* a run that ends Infeasible or with another solver status than a solution
RunFails == pc = "idle" /\ pc' = "solved" /\ status_message' # "Feasible"
RespondsToFailure == pc = "solved" /\ pc' = "done" /\ status_message # "Feasible"

\* C10 as stated: a run that ends Infeasible or with a time-out leaves the set
\* of tasks and every task's id, start, end and status as they were.
C10_NoTaskStateChange ==
  [][(RunFails \/ RespondsToFailure) => TaskState(tasks') = TaskState(tasks)]_vars

\* C10, amended: a run that ends Infeasible or with a time-out leaves every
\* one-off task as it was; the derived tasks of the recurring events are
\* deleted and created again, with fresh ids, whatever the outcome.
C10_OneOffTasksUnchanged ==
  [][(RunFails \/ RespondsToFailure) => OneOffRows(tasks') = OneOffRows(tasks)]_vars

\* an infeasible run over a repository with a recurring event and a one-off task
C10_Witness ==
  /\ pc = "done" /\ status_message = "Infeasible"
  /\ DOMAIN recurring # {}
  /\ \E t \in DOMAIN tasks : tasks[t].recurring_event_id = None
  /\ \E t \in DOMAIN tasks : tasks[t].recurring_event_id # None

\* the tasks a recurring event produced
IsDerived(task) == task.recurring_event_id # None

\* datetime.time(): the time of day of an instant
TimeOfDay(t) == t % TicksPerDay

\* a time of day inside the hours of the task's window (which wraps around
\* midnight when it is overnight)
InWindowHours(task, tm) ==
  IF task.time_window_end < task.time_window_start
  THEN tm >= task.time_window_start \/ tm < task.time_window_end
  ELSE task.time_window_start <= tm /\ tm < task.time_window_end

\* C11: in a feasible schedule every assigned derived task with a time window
\* starts on its instance_date, at a time of day inside the window.
C11_DerivedWindowedOnInstanceDate ==
  Feasible =>
    \A t \in Items :
      LET task == tasks[t.task_id]
      IN  (IsDerived(task) /\ HasWindow(task)) =>
            /\ DateOf(t.start) = task.instance_date
            /\ InWindowHours(task, TimeOfDay(t.start))

\* C12: in a feasible schedule every assigned derived task without a time
\* window starts on its instance_date.
C12_DerivedNoWindowOnInstanceDate ==
  Feasible =>
    \A t \in Items :
      LET task == tasks[t.task_id]
      IN  (IsDerived(task) /\ ~HasWindow(task)) => DateOf(t.start) = task.instance_date

\* the dates d with start.date() <= d < end.date() whose weekday is in the
\* recurrence set
RecurrenceDates(rec, start_date, end_date) ==
  {d \in DateOf(start_date) .. (DateOf(end_date) - 1) : Weekday(d) \in rec.recurrence}

\* the Task rows of a recurring event
TasksOf(ts, rid) == {t \in DOMAIN ts : ts[t].recurring_event_id = rid}

\* C13: after the reset of a run, every recurring event has exactly one task
\* per date of the period whose weekday is in its recurrence set (the end date
\* excluded), and no other task.
C13_RecurrenceCoverage ==
  pc \in {"solved", "failed"} =>
    \A rid \in DOMAIN recurring :
      LET dates == RecurrenceDates(recurring[rid], PeriodStart, PeriodEnd)
          mine == TasksOf(tasks, rid)
      IN  /\ Cardinality(mine) = Cardinality(dates)
          /\ \A d \in dates : Cardinality({t \in mine : tasks[t].instance_date = d}) = 1
          /\ \A t \in mine : Weekday(tasks[t].instance_date) \in recurring[rid].recurrence

\* a reset that replaced the two tasks of an earlier expansion by one task
C13_Witness ==
  /\ pc = "solved"
  /\ nextId > 3
  /\ \E rid \in DOMAIN recurring :
       /\ Cardinality(TasksOf(tasks, rid)) = 1
       /\ \A t \in TasksOf(tasks, rid) : t >= 3

\* the date whose end the claim names as the due date: the day after the
\* instance date for an overnight window
EffectiveDate(task) ==
  IF HasWindow(task) /\ task.time_window_end < task.time_window_start
  THEN task.instance_date + 1
  ELSE task.instance_date

\* C14: every derived task the reset of a run emits is due at the end of the
\* day of its effective date: the day after its instance date when the window
\* is overnight, its instance date otherwise.
C14_DueByEndOfEffectiveDate ==
  pc # "idle" =>
    \A t \in DOMAIN tasks :
      IsDerived(tasks[t]) => tasks[t].due_by = Combine(EffectiveDate(tasks[t]), TimeMax)

\* a request whose period does not start before it ends
InvalidRangeRequest == pc = "idle" /\ pc' # "idle" /\ period'[1] >= period'[2]

\* C15: a request with period_start >= period_end fails at once: the run ends
\* in the error before any derived task is deleted or created and before any
\* task is written.
C15_InvalidRangeFailsFirst ==
  [][InvalidRangeRequest => (pc' = "failed" /\ tasks' = tasks /\ nextId' = nextId)]_vars

\* the dependency edges with both ends in the batch of the run
BatchEdges == {e \in deps : e[1] \in Range(batch) /\ e[2] \in Range(batch)}

\* the tasks reachable from a set of tasks along the batch's edges
RECURSIVE ReachableFrom(_)
ReachableFrom(S) ==
  LET more == S \cup {e[2] : e \in {x \in BatchEdges : x[1] \in S}}
  IN  IF more = S THEN S ELSE ReachableFrom(more)

\* some task of the batch depends, directly or not, on itself
BatchHasCycle ==
  \E e \in BatchEdges : e[1] \in ReachableFrom({e[2]})

\* C16: a run over a batch whose dependency edges contain a cycle ends in a
\* fatal error raised before the model is solved, and not with the status
\* "Infeasible".
C16_CycleIsFatalError ==
  (pc # "idle" /\ ~PeriodInvalid(PeriodStart, PeriodEnd) /\ BatchHasCycle) =>
    (pc = "failed" /\ status_message # "Infeasible")

\* the write-back step of a run that returned a list
WriteBackStep == pc = "solved" /\ pc' = "done" /\ ~result.is_none

\* every entry of the list names a row of the Task table
AllFound == \A x \in Items : x.task_id \in DOMAIN tasks

\* the row of a listed task after the write-back
Written(row, x) == [row EXCEPT !.start = x.start, !.end = x.end, !.status = "scheduled"]

\* C17: the write-back is all or nothing: when an entry of the list names a
\* task that is not in the repository, no row changes; otherwise every listed
\* task gets its start, its end and the status scheduled, and no other row
\* changes.
C17_WriteBackAllOrNothing ==
  [][WriteBackStep =>
       IF AllFound
       THEN /\ DOMAIN tasks' = DOMAIN tasks
            /\ \A t \in DOMAIN tasks :
                 IF \E x \in Items : x.task_id = t
                 THEN \A x \in Items : x.task_id = t => tasks'[t] = Written(tasks[t], x)
                 ELSE tasks'[t] = tasks[t]
       ELSE tasks' = tasks]_vars

\* a write-back that found the first task of the list but not the second, and
\* left the first unscheduled
C17_Witness ==
  /\ pc = "done" /\ ~result.is_none
  /\ Len(result.items) = 2
  /\ result.items[1].task_id \in DOMAIN tasks
  /\ result.items[2].task_id \notin DOMAIN tasks
  /\ tasks[result.items[1].task_id].start = None
  /\ tasks[result.items[1].task_id].status = "unscheduled"

\* a write-back that found both tasks of the list
C17_WitnessAll ==
  /\ pc = "done" /\ ~result.is_none
  /\ Len(result.items) = 2
  /\ \A x \in Items : /\ x.task_id \in DOMAIN tasks
                      /\ tasks[x.task_id].start = x.start
                      /\ tasks[x.task_id].status = "scheduled"

\* the rows of the CalendarEvent table that are not Chewy-managed, as a list
UnmanagedEvents ==
  LET ids == Ascending({e \in DOMAIN events : events[e].is_chewy_managed = FALSE})
  IN  [i \in 1..Len(ids) |-> events[ids[i]]]

\* the scheduling problem of the run with the Chewy-managed events taken out
\* of the repository
ModelWithoutManaged ==
  BuildModel(tasks, batch, UnmanagedEvents, deps, PeriodStart, PeriodEnd,
             WORK_START_HOUR, WORK_END_HOUR)

\* C18: Chewy-managed calendar events do not obstruct a run: what a run over
\* a repository that holds such events answers is an answer to the same
\* problem without them: its schedule
\* satisfies that problem, and it is Infeasible only if that problem has no
\* schedule.
C18_ManagedEventsNeverObstruct ==
  (Returned /\ \E e \in DOMAIN events : events[e].is_chewy_managed) =>
    /\ status_message = "Feasible" => solved \in Solutions(ModelWithoutManaged)
    /\ status_message = "Infeasible" =>
         (Solutions(ModelWithoutManaged) = {} \/ HasEmptyDomain(ModelWithoutManaged))

\* a task placed in the middle of a Chewy-managed event
C18_Witness ==
  /\ Feasible
  /\ \E t \in Items, e \in DOMAIN events :
       /\ events[e].is_chewy_managed
       /\ events[e].start <= t.start /\ t.end <= events[e].end

\* C19: DELETE /api/schedule/clear un-schedules the scheduled tasks only: they
\* become unscheduled with start and end cleared, completed tasks stay
\* completed, and unscheduled tasks stay as they are.
C19_ClearOnlyScheduled ==
  [][ClearAllScheduledTasks =>
       /\ DOMAIN tasks' = DOMAIN tasks
       /\ \A t \in DOMAIN tasks :
            /\ tasks[t].status = "scheduled" =>
                 /\ tasks'[t].status = "unscheduled"
                 /\ tasks'[t].start = None /\ tasks'[t].end = None
            /\ tasks[t].status = "completed" => tasks'[t].status = "completed"
            /\ tasks[t].status = "unscheduled" => tasks'[t] = tasks[t]]_vars

\* C20: every task whose start is set ends its duration after its start and
\* is not unscheduled.
C20_StartImpliesEndAndStatus ==
  \A t \in DOMAIN tasks :
    tasks[t].start # None =>
      /\ tasks[t].end = PlusMinutes(tasks[t].start, tasks[t].duration)
      /\ tasks[t].status # "unscheduled"

\* the integers a list of half-open intervals covers
Covered(list) == UNION {list[i][1] .. (list[i][2] - 1) : i \in 1..Len(list)}

\* C21: merge_overlapping_intervals returns the minimal disjoint list that
\* covers what its argument covers: the output is sorted by start, each
\* interval ends before the next one starts (so intervals that overlap or
\* touch have been coalesced), the covered integers are those of the input,
\* and an empty input gives an empty output.
C21_MergeContract ==
  pc = "merged" =>
    /\ \A i \in 1..Len(merged) : merged[i][1] < merged[i][2]
    /\ \A i \in 1..(Len(merged) - 1) : merged[i][2] < merged[i + 1][1]
    /\ Covered(merged) = Covered(intervals)
    /\ intervals = <<>> => merged = <<>>

\* three intervals, two of which touch, merged into two
C21_Witness ==
  /\ pc = "merged"
  /\ Len(intervals) = 3 /\ Len(merged) = 2
  /\ \E i \in 1..2 : intervals[i][2] = intervals[i + 1][1]

\* ------------------------------------------------------------------ C22
\* both requests have returned from generate_schedule, for the same period
BothReturned ==
  /\ Returned
  /\ other.pc \in {"solved", "done"}
  /\ other.period = period

\* a run that ended at the solver's time limit
TimedOut(message) == message = "Solver status: UNKNOWN"

\* the task_ids a returned list names
AssignedIds(r) == IF r.is_none THEN {} ELSE {x.task_id : x \in Range(r.items)}

\* the second schedule keeps its tasks apart, inside the horizon, and off the
\* calendar events
SecondScheduleValid ==
  LET items == Range(other.result.items)
  IN  /\ \A a \in items, b \in items :
           a.task_id # b.task_id => (a.end <= b.start \/ b.end <= a.start)
      /\ \A a \in items : other.period[1] <= a.start /\ a.end <= other.period[2]
      /\ \A a \in items, e \in DOMAIN events :
           events[e].is_chewy_managed = FALSE =>
             ~(a.start < events[e].end /\ a.end > events[e].start)

\* C22: of two successive calls of generate_schedule with the same period on
\* an unchanged repository, neither ended by the time limit, the second
\* returns the status of the first, names the same set of task_ids, and its
\* schedule satisfies the hard constraints.
C22_SecondCallRepeats ==
  (BothReturned /\ ~TimedOut(status_message) /\ ~TimedOut(other.status_message)) =>
    /\ other.status_message = status_message
    /\ AssignedIds(other.result) = AssignedIds(result)
    /\ SecondScheduleValid

\* ------------------------------------------------------------------ C23
\* the write-back step of the first request / of the second request, for a
\* schedule that generate_schedule returned
OtherWriteBackStep == other.pc = "solved" /\ other'.pc = "done" /\ ~other.result.is_none

\* the rows of the listed tasks after a write-back that committed
Committed(items) ==
  /\ \A x \in items : x.task_id \in DOMAIN tasks
  /\ DOMAIN tasks' = DOMAIN tasks
  /\ \A x \in items : tasks'[x.task_id] = Written(tasks[x.task_id], x)
  /\ \A t \in DOMAIN tasks :
       t \notin {x.task_id : x \in items} => tasks'[t] = tasks[t]

\* C23: when two scheduling requests interleave, a request that obtained a
\* Feasible schedule commits it whole (it does not fail because of the other
\* request), so that after it the stored start, end and status of its tasks
\* are the ones it wrote.
C23_ConcurrentRequestsCommit ==
  [][/\ WriteBackStep => Committed(Items)
     /\ OtherWriteBackStep => Committed(Range(other.result.items))]_vars

\* ------------------------------------------------------------------ C24
\* C24: every dependency edge refers to two existing tasks, however tasks
\* were deleted (DELETE /api/tasks/<id>, the reset of a recurring event).
C24_EdgesReferToTasks ==
  \A e \in deps : e[1] \in DOMAIN tasks /\ e[2] \in DOMAIN tasks

\* ------------------------------------------------------------------ C25
\* the forbidden zones of the run: merged_forbidden_segments for the period
\* and the calendar events fetched for it
RunZones ==
  ForbiddenSegments(get_calendar_events(events, PeriodStart, PeriodEnd),
                    PeriodStart, PeriodEnd, WORK_START_HOUR, WORK_END_HOUR)

\* the period and the fetched calendar events begin and end on whole minutes
MinuteAligned ==
  LET evs == get_calendar_events(events, PeriodStart, PeriodEnd)
  IN  /\ PeriodStart % TicksPerMinute = 0
      /\ PeriodEnd % TicksPerMinute = 0
      /\ \A i \in 1..Len(evs) :
           evs[i].start % TicksPerMinute = 0 /\ evs[i].end % TicksPerMinute = 0

\* the minute at offset m of the horizon cannot hold work: weekend, before
\* work starts, at or after work ends, or inside a clipped calendar event
NonSchedulableMinute(m) ==
  LET s == PlusMinutes(PeriodStart, m)
      evs == get_calendar_events(events, PeriodStart, PeriodEnd)
  IN  \/ Weekday(DateOf(s)) >= 5
      \/ TimeOfDay(s) < TimeOfHour(WORK_START_HOUR)
      \/ TimeOfDay(s) >= TimeOfHour(WORK_END_HOUR)
      \/ \E i \in 1..Len(evs) :
           Max(evs[i].start, PeriodStart) <= s /\ s < Min(evs[i].end, PeriodEnd)

\* C25: in a run whose period and events lie on whole minutes, a minute
\* offset m in [0, H) lies in a forbidden zone exactly when it is not
\* schedulable, the last minute of a day included.
C25_ZonesCoverNonSchedulable ==
  (pc \in {"solved", "done"} /\ MinuteAligned) =>
    \A m \in 0..(HorizonMinutes(PeriodStart, PeriodEnd) - 1) :
      (m \in Covered(RunZones)) <=> NonSchedulableMinute(m)

\* ------------------------------------------------------------------ C26
\* a task that cannot be placed whatever the other tasks are: longer than the
\* horizon, due before the period, due sooner than its duration, or windowed
\* with no candidate slot (an instance_date on a weekend or outside the
\* horizon leaves none)
InfeasibleAlone(task) ==
  \/ task.duration > HorizonMinutes(PeriodStart, PeriodEnd)
  \/ task.due_by # None /\ task.due_by < PeriodStart
  \/ task.due_by # None /\ task.due_by - PeriodStart < task.duration * TicksPerMinute
  \/ HasWindow(task) /\ task.instance_date # None
       /\ ~InstanceDateValid(task, PeriodStart, PeriodEnd)
  \/ HasWindow(task)
       /\ PossibleWindows(task, PeriodStart, PeriodEnd,
                          WORK_START_HOUR, WORK_END_HOUR) = <<>>

\* C26: when a task of the batch is infeasible on its own and the solver did
\* not run into its time limit, the run returns (None, "Infeasible").
C26_InfeasibleTaskMakesRunInfeasible ==
  (pc = "solved" /\ ~TimedOut(status_message)
     /\ \E id \in Range(batch) : InfeasibleAlone(tasks[id])) =>
    (result.is_none /\ status_message = "Infeasible")

\* ------------------------------------------------------------------ C27
\* the scheduling problem of the run as built, and with the edges that have
\* an end outside the batch taken out
ModelOfRun ==
  BuildModel(tasks, batch, get_calendar_events(events, PeriodStart, PeriodEnd), deps,
             PeriodStart, PeriodEnd, WORK_START_HOUR, WORK_END_HOUR)
ModelWithBatchEdges ==
  BuildModel(tasks, batch, get_calendar_events(events, PeriodStart, PeriodEnd), BatchEdges,
             PeriodStart, PeriodEnd, WORK_START_HOUR, WORK_END_HOUR)

\* C27: a dependency edge with an end outside the batch constrains nothing
\* and raises no error: the run returns, its problem has the same solver
\* outcomes as the problem without such edges, and its answer is one of them.
C27_OutOfBatchEdgesImposeNothing ==
  (pc # "idle" /\ ~PeriodInvalid(PeriodStart, PeriodEnd) /\ deps # BatchEdges) =>
    /\ Returned
    /\ SolverOutcomes(ModelOfRun) = SolverOutcomes(ModelWithBatchEdges)
    /\ \E outcome \in SolverOutcomes(ModelWithBatchEdges) :
         /\ solved = outcome.value
         /\ result = ProcessResults(ModelWithBatchEdges, outcome).result
         /\ status_message = ProcessResults(ModelWithBatchEdges, outcome).status_message

\* a task placed before the end of a task it depends on, which is completed
\* or due before the period and so is not in the batch
C27_Witness ==
  /\ Feasible
  /\ \E e \in deps, x \in Items :
       /\ x.task_id = e[1]
       /\ e[2] \in DOMAIN tasks
       /\ e[2] \notin Range(batch)
       /\ tasks[e[2]].status = "completed" \/ tasks[e[2]].due_by < PeriodStart

\* ------------------------------------------------------------------ C28
\* the window of the task runs past midnight
Overnight(task) == HasWindow(task) /\ task.time_window_end < task.time_window_start

\* C28: for a task of the batch with an overnight window and a candidate day
\* d whose next day is a Saturday or a Sunday, no slot is recorded for d.
C28_WeekendOvernightSlotDiscarded ==
  (pc = "solved" /\ ~TimedOut(status_message)) =>
    \A id \in Range(batch) :
      Overnight(tasks[id]) =>
        \A d \in Range(DaysToCheck(tasks[id], PeriodStart, PeriodEnd)) :
          Weekday(d + 1) >= 5 =>
            WindowSlot(tasks[id], d, PeriodStart, PeriodEnd,
                       WORK_START_HOUR, WORK_END_HOUR) = <<>>

\* ------------------------------------------------------------------ C29
\* a step of a scheduling run: generate_schedule, or the write-back
RunStep == (pc = "idle" /\ pc' # "idle") \/ (pc = "solved" /\ pc' = "done")

\* C29: a step of a scheduling run keeps every completed task, with its
\* status, start and end, and creates no other task for the recurring event
\* and instance_date of a completed derived task.
C29_CompletionIsPermanent ==
  [][RunStep =>
       \A t \in DOMAIN tasks :
         tasks[t].status = "completed" =>
           /\ t \in DOMAIN tasks'
           /\ tasks'[t].status = "completed"
           /\ tasks'[t].start = tasks[t].start
           /\ tasks'[t].end = tasks[t].end
           /\ IsDerived(tasks[t]) =>
                \A n \in DOMAIN tasks' \ DOMAIN tasks :
                  ~(/\ tasks'[n].recurring_event_id = tasks[t].recurring_event_id
                    /\ tasks'[n].instance_date = tasks[t].instance_date)]_vars

\* ------------------------------------------------------------------ C30
\* a step of a run that ends Feasible: generate_schedule, or its write-back
SuccessfulRunStep ==
  \/ pc = "idle" /\ pc' = "solved" /\ status_message' = "Feasible"
  \/ pc = "solved" /\ pc' = "done" /\ status_message = "Feasible"

\* the task is one the run fetches: not completed, due at or after the
\* period start
InBatch(task) ==
  task.status # "completed" /\ task.due_by # None /\ task.due_by >= period'[1]

\* the row differs from the old one in start, end and status at most
SameButPlacement(new, old) ==
  new = [old EXCEPT !.start = new.start, !.end = new.end, !.status = new.status]

\* the dependency edges that touch no derived task
OneOffEdges(ds) ==
  {e \in ds : \A i \in {1, 2} : e[i] \in DOMAIN tasks => ~IsDerived(tasks[e[i]])}

====
